---- MODULE Spec2Model ----
(***************************************************************************)
(* Model of zed/src/language.rs: the language registry, its path-based     *)
(* selection (LanguageRegistry::select_language) and the per-language      *)
(* theme mapping guarded by a mutex (Language::theme_mapping / set_theme,  *)
(* LanguageRegistry::set_theme).                                           *)
(*                                                                         *)
(* Strings are sequences of one-character strings, so that file names,     *)
(* extensions and suffixes are compared the way the code compares them.    *)
(***************************************************************************)
EXTENDS Integers, Sequences, FiniteSets, TLC

\* ------------------------------------------------------------------ bounds
MaxPathLen == 5
MaxLangs == 2
NumThreads == 2

\* ------------------------------------------------------------- characters
Sep == "/"
Dot == "."
Alphabet == {Sep, Dot, "r", "s"}

\* Option<T>: None is the empty sequence, Some(x) the one-element sequence.
None == <<>>
Some(x) == <<x>>

\* All strings over Alphabet of length 0..n.
RECURSIVE StringsUpTo(_)
StringsUpTo(n) ==
    IF n = 0 THEN {<<>>}
    ELSE LET shorter == StringsUpTo(n - 1)
         IN  shorter \cup {Append(s, c) : s \in {x \in shorter : Len(x) = n - 1}, c \in Alphabet}

Paths == StringsUpTo(MaxPathLen)

\* ------------------------------------------------- std::path::Path (Unix)
\* The components of a path: the pieces between separators, empty pieces
\* (repeated or trailing separators) dropped.
RECURSIVE Split(_, _, _)
Split(p, i, cur) ==
    IF i > Len(p) THEN (IF cur = <<>> THEN <<>> ELSE <<cur>>)
    ELSE IF p[i] = Sep
         THEN (IF cur = <<>> THEN <<>> ELSE <<cur>>) \o Split(p, i + 1, <<>>)
         ELSE Split(p, i + 1, Append(cur, p[i]))

\* Path::components: "." pieces are normalised away (a leading "." is kept
\* as CurDir, which is never a file name, so it is dropped here as well).
Components(p) == SelectSeq(Split(p, 1, <<>>), LAMBDA c : c # <<Dot>>)

\* Path::file_name: the last component if it is a normal one; None when the
\* path has no component or ends in "..".
FileNameOf(p) ==
    LET cs == Components(p)
    IN  IF cs = <<>> THEN None
        ELSE IF cs[Len(cs)] = <<Dot, Dot>> THEN None
        ELSE Some(cs[Len(cs)])

\* Index of the last '.' of a string, 0 if it has none.
LastDot(s) ==
    LET ds == {i \in 1..Len(s) : s[i] = Dot}
    IN  IF ds = {} THEN 0 ELSE CHOOSE i \in ds : \A j \in ds : j <= i

\* Variant: whatever follows the final '.', also when that '.' comes first.
ExtensionOfAnyDot(p) ==
    LET fname == FileNameOf(p)
    IN  IF fname = None THEN None
        ELSE LET name == fname[1]
             IN  IF LastDot(name) = 0 THEN None
                 ELSE Some(SubSeq(name, LastDot(name) + 1, Len(name)))

\* Path::extension: None if there is no file name, no '.', or the only '.'
\* is the first character; otherwise the part after the final '.'.
ExtensionOf(p) ==
    LET fname == FileNameOf(p)
    IN  IF fname = None THEN None
        ELSE LET name == fname[1]
             IN  IF LastDot(name) <= 1 THEN None
                 ELSE Some(SubSeq(name, LastDot(name) + 1, Len(name)))

\* ------------------------------------------------------------- languages
\* LanguageConfig (name, path_suffixes) with the capture names of the
\* language's highlight query; grammar and query are opaque and immutable.
Rust == [name |-> "Rust", path_suffixes |-> << <<"r", "s">> >>,
         captures |-> <<"keyword", "string">>]
Make == [name |-> "Make", path_suffixes |-> << <<"r", "r">>, <<"s">> >>,
         captures |-> <<"comment">>]
Lock == [name |-> "Lock", path_suffixes |-> << <<"r", Dot, "s">>, <<"r", "s">> >>,
         captures |-> <<"string">>]
Plain == [name |-> "Plain", path_suffixes |-> <<>>, captures |-> <<>>]

LangPool == {Rust, Make, Lock, Plain}

\* Registries: every ordered list of at most MaxLangs languages of the pool.
RECURSIVE RegistriesOfLen(_)
RegistriesOfLen(n) ==
    IF n = 0 THEN {<<>>}
    ELSE {Append(r, l) : r \in RegistriesOfLen(n - 1), l \in LangPool}

Registries == UNION {RegistriesOfLen(n) : n \in 0..MaxLangs}

\* The registries of the concurrent model: the one LanguageRegistry::new
\* builds (Rust alone) and the two-language shape of the test fixture.
ModelRegistries == {<<Rust>>, <<Rust, Make>>}

\* Paths the concurrent model selects on ("s.rs", "rr").
FixturePaths == {<<"s", Dot, "r", "s">>, <<"r", "r">>}

Themes == {"dark", "light"}
NoTheme == "none"

Threads == 1..NumThreads
NoThread == 0

VARIABLES
    languages,      \* LanguageRegistry.languages: Vec<Arc<Language>>
    theme_mapping,  \* Language.theme_mapping: the value in the mutex, per language
    lock,           \* Language.theme_mapping: the holder of the mutex, per language
    installed,      \* per language, the theme of the last completed store
    threads,        \* per thread: the call it is in (or was last in) and its locals
    path,           \* argument of the last select_language call
    filename,       \* its file name key
    extension,      \* its extension key
    selected        \* its result: None or Some(index of the language)

selvars == <<path, filename, extension, selected>>
vars == <<languages, theme_mapping, lock, installed, threads,
          path, filename, extension, selected>>

\* ---------------------------------------------------------- select_language
\* Variant: a suffix matches when a key merely ends with it.
EndsWith(s, suffix) ==
    /\ Len(suffix) <= Len(s)
    /\ SubSeq(s, Len(s) - Len(suffix) + 1, Len(s)) = suffix

SuffixMatchesEnding(language, keys) ==
    \E i \in 1..Len(language.path_suffixes) :
        \E k \in 1..Len(keys) :
            keys[k] # None /\ EndsWith(keys[k][1], language.path_suffixes[i])

\* any(|suffix| path_suffixes.contains(&Some(suffix.as_str())))
SuffixMatches(language, keys) ==
    \E i \in 1..Len(language.path_suffixes) :
        \E k \in 1..Len(keys) : keys[k] = Some(language.path_suffixes[i])

\* Variant: the last matching language wins.
FindLanguageLast(langs, keys) ==
    LET hits == {i \in 1..Len(langs) : SuffixMatches(langs[i], keys)}
    IN  IF hits = {} THEN None
        ELSE Some(CHOOSE i \in hits : \A j \in hits : j <= i)

\* self.languages.iter().find(...): the first language, in registration
\* order, one of whose suffixes is one of the keys.
FindLanguage(langs, keys) ==
    LET hits == {i \in 1..Len(langs) : SuffixMatches(langs[i], keys)}
    IN  IF hits = {} THEN None
        ELSE Some(CHOOSE i \in hits : \A j \in hits : i <= j)

\* Variant: only the file name is a key.
PathSuffixesFilenameOnly(ext, fname) == <<fname>>

\* let path_suffixes = [extension, filename];
PathSuffixes(ext, fname) == <<ext, fname>>

select_language(langs, p) ==
    FindLanguage(langs, PathSuffixes(ExtensionOf(p), FileNameOf(p)))

\* One call of LanguageRegistry::select_language.
SelectLanguage(p) ==
    /\ path' = Some(p)
    /\ filename' = FileNameOf(p)
    /\ extension' = ExtensionOf(p)
    /\ selected' = FindLanguage(languages, PathSuffixes(extension', filename'))
    /\ UNCHANGED <<languages, theme_mapping, lock, installed, threads>>

\* ------------------------------------------------------------- theme maps
\* ThemeMap::default()
DefaultThemeMap == <<>>

\* The style a theme gives a capture name.
StyleOf(theme, capture) == <<theme, capture>>

\* ThemeMap::new(capture_names, theme): one entry per capture name, in the
\* query's order.
ThemeMapNew(capture_names, theme) ==
    [i \in 1..Len(capture_names) |->
        [capture |-> capture_names[i], style |-> StyleOf(theme, capture_names[i])]]

\* Variant: the new entries are appended to the value in the mutex.
StoreEntriesAppend(cell, new, k) ==
    IF k <= Len(new) THEN Append(cell, new[k]) ELSE cell

\* Variant: the new value never reaches the mutex.
StoreEntriesKeep(cell, new, k) == cell

\* The value in the mutex while `*guard = new` has moved k entries of `new`
\* over it: the first k entries are new, the rest still the old value's; the
\* last step leaves exactly `new`.
StoreEntries(cell, new, k) ==
    IF k >= Len(new) THEN new
    ELSE SubSeq(new, 1, k) \o SubSeq(cell, k + 1, Len(cell))

\* Variant: a lock that does not exclude.
CanLockAlways(l) == TRUE

\* Mutex::lock may take the mutex only when nobody holds it.
CanLock(l) == lock[l] = NoThread

\* Variant: the guard is leaked and the mutex stays held.
ReleaseNever(l) == lock

\* Dropping the guard releases the mutex.
Release(l) == [lock EXCEPT ![l] = NoThread]

\* A thread's record: where it is (pc) in which call (op, lang, theme), the
\* locals of that call (new, k, snap), and two observations about the call:
\* `alone`, no other thread has stored since this registry-wide set_theme
\* began; `seen`, the themes whose set_theme on the language had returned when
\* this theme_mapping call began. An idle thread keeps the record of its last
\* call.
Idle == [pc |-> "idle", op |-> "none", lang |-> 0, theme |-> NoTheme,
         new |-> DefaultThemeMap, k |-> 0, snap |-> DefaultThemeMap,
         alone |-> FALSE, seen |-> {}]

\* The themes T for which a set_theme(T) reaching language l has returned and
\* is still the last call of its thread.
Returned(l) ==
    {threads[w].theme : w \in {u \in Threads :
        /\ threads[u].pc = "idle"
        /\ \/ threads[u].op = "set_theme" /\ threads[u].lang = l
           \/ threads[u].op = "registry_set_theme"}}

\* ------------------------------------------------- Language::theme_mapping
\* A thread calls language.theme_mapping().
ThemeMappingCall(t, l) ==
    /\ threads[t].pc = "idle"
    /\ threads' = [threads EXCEPT ![t] =
            [Idle EXCEPT !.pc = "tm_lock", !.op = "theme_mapping", !.lang = l,
                         !.seen = Returned(l)]]
    /\ UNCHANGED <<languages, theme_mapping, lock, installed, selvars>>

\* self.theme_mapping.lock()
ThemeMappingLock(t) ==
    /\ threads[t].pc = "tm_lock"
    /\ CanLock(threads[t].lang)
    /\ lock' = [lock EXCEPT ![threads[t].lang] = t]
    /\ threads' = [threads EXCEPT ![t].pc = "tm_clone"]
    /\ UNCHANGED <<languages, theme_mapping, installed, selvars>>

\* Variant: the mapping is taken out of the mutex instead of cloned.
ThemeMappingTake(t) ==
    /\ threads[t].pc = "tm_clone"
    /\ threads' = [threads EXCEPT ![t].pc = "idle", ![t].seen = {},
                                  ![t].snap = theme_mapping[threads[t].lang]]
    /\ theme_mapping' = [theme_mapping EXCEPT ![threads[t].lang] = DefaultThemeMap]
    /\ lock' = Release(threads[t].lang)
    /\ UNCHANGED <<languages, installed, selvars>>

\* .clone(), then the guard is dropped and the snapshot returned.
ThemeMappingClone(t) ==
    /\ threads[t].pc = "tm_clone"
    /\ threads' = [threads EXCEPT ![t].pc = "idle", ![t].seen = {},
                                  ![t].snap = theme_mapping[threads[t].lang]]
    /\ lock' = Release(threads[t].lang)
    /\ UNCHANGED <<languages, theme_mapping, installed, selvars>>

\* ------------------------------------------------------ Language::set_theme
\* A thread calls language.set_theme(theme); the right-hand side
\* ThemeMap::new(...) is evaluated before the mutex is taken.
SetThemeCall(t, l, theme) ==
    /\ threads[t].pc = "idle"
    /\ threads' = [threads EXCEPT ![t] =
            [Idle EXCEPT !.pc = "st_lock", !.op = "set_theme", !.lang = l,
                         !.theme = theme,
                         !.new = ThemeMapNew(languages[l].captures, theme)]]
    /\ UNCHANGED <<languages, theme_mapping, lock, installed, selvars>>

\* self.theme_mapping.lock()
SetThemeLock(t) ==
    /\ threads[t].pc = "st_lock"
    /\ CanLock(threads[t].lang)
    /\ lock' = [lock EXCEPT ![threads[t].lang] = t]
    /\ threads' = [threads EXCEPT ![t].pc = "st_store", ![t].k = 0]
    /\ UNCHANGED <<languages, theme_mapping, installed, selvars>>

\* Another thread's store ends the "no other writer during the call" of a
\* registry-wide set_theme in progress.
Disturb(t) ==
    [u \in Threads |->
        IF u # t /\ threads[u].pc # "idle" /\ threads[u].op = "registry_set_theme"
        THEN [threads[u] EXCEPT !.alone = FALSE]
        ELSE threads[u]]

\* *guard = new: one entry of the new value is moved into the mutex.
SetThemeStore(t) ==
    LET me == threads[t]
        done == me.k + 1 >= Len(me.new)
    IN  /\ me.pc = "st_store"
        /\ theme_mapping' = [theme_mapping EXCEPT ![me.lang] =
                StoreEntries(theme_mapping[me.lang], me.new, me.k + 1)]
        /\ installed' = IF done THEN [installed EXCEPT ![me.lang] = me.theme]
                        ELSE installed
        /\ threads' = [Disturb(t) EXCEPT ![t].k = me.k + 1,
                                         ![t].pc = IF done THEN "st_unlock" ELSE "st_store"]
        /\ UNCHANGED <<languages, lock, selvars>>

\* Variant: every other language is skipped.
NextLanguageSkip(l) == l + 2

\* The index of the language a registry-wide set_theme visits after language l.
NextLanguage(l) == l + 1

\* The guard is dropped at the end of the statement. Language::set_theme
\* returns; LanguageRegistry::set_theme goes on to the next language, or
\* returns after the last one.
SetThemeUnlock(t) ==
    LET me == threads[t]
        more == me.op = "registry_set_theme" /\ NextLanguage(me.lang) \in 1..Len(languages)
    IN  /\ me.pc = "st_unlock"
        /\ lock' = Release(me.lang)
        /\ threads' = [threads EXCEPT ![t] =
                IF more
                THEN [me EXCEPT !.pc = "st_lock", !.lang = NextLanguage(me.lang), !.k = 0,
                                !.new = ThemeMapNew(languages[NextLanguage(me.lang)].captures,
                                                    me.theme)]
                ELSE [me EXCEPT !.pc = "idle", !.k = 0, !.new = DefaultThemeMap,
                                !.alone = FALSE]]
        /\ UNCHANGED <<languages, theme_mapping, installed, selvars>>

\* -------------------------------------------- LanguageRegistry::set_theme
\* The first language a registry-wide set_theme visits.
FirstLanguage == 1

\* A thread calls registry.set_theme(theme): for language in &self.languages.
RegistrySetThemeCall(t, theme) ==
    /\ threads[t].pc = "idle"
    /\ Len(languages) > 0
    /\ threads' = [threads EXCEPT ![t] =
            [Idle EXCEPT !.pc = "st_lock", !.op = "registry_set_theme",
                         !.lang = FirstLanguage, !.theme = theme, !.alone = TRUE,
                         !.new = ThemeMapNew(languages[FirstLanguage].captures, theme)]]
    /\ UNCHANGED <<languages, theme_mapping, lock, installed, selvars>>

\* A thread calls registry.select_language(p).
ThreadSelectLanguage(t, p) ==
    /\ threads[t].pc = "idle"
    /\ SelectLanguage(p)

\* ---------------------------------------------------------- specifications
Init ==
    /\ languages \in ModelRegistries
    /\ theme_mapping = [i \in 1..Len(languages) |-> DefaultThemeMap]
    /\ lock = [i \in 1..Len(languages) |-> NoThread]
    /\ installed = [i \in 1..Len(languages) |-> NoTheme]
    /\ threads = [t \in Threads |-> Idle]
    /\ path = None
    /\ filename = None
    /\ extension = None
    /\ selected = None

Step(t) ==
    \/ ThemeMappingLock(t)
    \/ ThemeMappingClone(t)
    \/ SetThemeLock(t)
    \/ SetThemeStore(t)
    \/ SetThemeUnlock(t)

Call(t) ==
    \/ \E l \in 1..Len(languages) : ThemeMappingCall(t, l)
    \/ \E l \in 1..Len(languages), theme \in Themes : SetThemeCall(t, l, theme)
    \/ \E theme \in Themes : RegistrySetThemeCall(t, theme)

\* The operations on theme mappings, by any thread at any time.
Next == \E t \in Threads : Call(t) \/ Step(t)

Spec == Init /\ [][Next]_vars

\* All operations: the above and select_language.
AllNext ==
    \E t \in Threads :
        \/ Call(t)
        \/ Step(t)
        \/ \E p \in FixturePaths : ThreadSelectLanguage(t, p)

AllSpec == Init /\ [][AllNext]_vars

\* Scheduling: a thread that can take a step eventually takes it; a thread
\* waiting for a mutex that is free again and again eventually gets it
\* (parking_lot's mutex is eventually fair).
Fairness ==
    \A t \in Threads :
        /\ WF_vars(ThemeMappingClone(t))
        /\ WF_vars(SetThemeStore(t))
        /\ WF_vars(SetThemeUnlock(t))
        /\ SF_vars(ThemeMappingLock(t))
        /\ SF_vars(SetThemeLock(t))

FairSpec == Init /\ [][Next]_vars /\ Fairness

\* The selection function on every registry and every path.
SelInit ==
    /\ languages \in Registries
    /\ theme_mapping = [i \in 1..Len(languages) |-> DefaultThemeMap]
    /\ lock = [i \in 1..Len(languages) |-> NoThread]
    /\ installed = [i \in 1..Len(languages) |-> NoTheme]
    /\ threads = [t \in Threads |-> Idle]
    /\ path = None
    /\ filename = None
    /\ extension = None
    /\ selected = None

\* One select_language call per behaviour, on any path.
SelNext == path = None /\ \E p \in Paths : SelectLanguage(p)

SelSpec == SelInit /\ [][SelNext]_vars

\* ================================================================== claims
\* Language i has a path_suffixes entry equal to the file name key or to the
\* extension key of the last select_language call.
EntryIsKey(i) ==
    \E e \in 1..Len(languages[i].path_suffixes) :
        \/ filename = Some(languages[i].path_suffixes[e])
        \/ extension = Some(languages[i].path_suffixes[e])

Called == path # None

\* C1: when some language has an entry equal to the path's file name key or
\* extension key, select_language returns the earliest-registered such
\* language: the returned one matches and none registered before it does.
C1_FirstMatchWins ==
    (Called /\ \E i \in 1..Len(languages) : EntryIsKey(i)) =>
        /\ selected # None
        /\ selected[1] \in 1..Len(languages)
        /\ EntryIsKey(selected[1])
        /\ \A j \in 1..(selected[1] - 1) : ~EntryIsKey(j)

\* Two registered languages match the path and the earlier one was returned.
C1_Witness ==
    /\ Called
    /\ \E i, j \in 1..Len(languages) :
        /\ i < j
        /\ EntryIsKey(i)
        /\ EntryIsKey(j)
        /\ languages[i] # languages[j]
        /\ selected = Some(i)

\* A registered suffix is a proper trailing part of the key.
ProperTail(key) ==
    /\ key # None
    /\ \E i \in 1..Len(languages) :
        \E e \in 1..Len(languages[i].path_suffixes) :
            LET entry == languages[i].path_suffixes[e]
            IN  /\ Len(entry) < Len(key[1])
                /\ SubSeq(key[1], Len(key[1]) - Len(entry) + 1, Len(key[1])) = entry

\* C2: when neither the file name nor the extension equals a registered
\* suffix, select_language returns None, also when a suffix is a proper part
\* of a key; the call changes no language and no mapping.
C2_MissIsNone ==
    /\ [](Called /\ (\A i \in 1..Len(languages) : ~EntryIsKey(i)) => selected = None)
    /\ [][path' # path => UNCHANGED <<languages, theme_mapping, lock, installed, threads>>]_vars

\* A miss on a path whose file name and extension both end with a registered
\* suffix without being equal to one.
C2_Witness ==
    /\ Called
    /\ selected = None
    /\ ProperTail(filename)
    /\ ProperTail(extension)

\* C6: when the extension equals a registered entry and the file name equals
\* no entry of any language, select_language returns a language owning that
\* extension entry (the first registered one that does).
C6_ExtensionMatch ==
    LET owns(i) == \E e \in 1..Len(languages[i].path_suffixes) :
                        extension = Some(languages[i].path_suffixes[e])
        named(i) == \E e \in 1..Len(languages[i].path_suffixes) :
                        filename = Some(languages[i].path_suffixes[e])
    IN  (/\ Called
         /\ \E i \in 1..Len(languages) : owns(i)
         /\ \A i \in 1..Len(languages) : ~named(i)) =>
            /\ selected # None
            /\ owns(selected[1])
            /\ \A j \in 1..(selected[1] - 1) : ~owns(j)

\* A call matched by its extension alone, in a registry of two languages of
\* which the second owns the extension.
C6_Witness ==
    /\ Called
    /\ extension # None
    /\ Len(languages) = 2
    /\ \A i \in 1..Len(languages) : \A e \in 1..Len(languages[i].path_suffixes) :
            filename # Some(languages[i].path_suffixes[e])
    /\ selected = Some(2)

\* The extension as the specification words it: whatever follows the final
\* '.' of the file name, absent only when the file name has no '.'.
ExtensionAfterFinalDot(fname) ==
    IF fname = None THEN None
    ELSE IF LastDot(fname[1]) = 0 THEN None
    ELSE Some(SubSeq(fname[1], LastDot(fname[1]) + 1, Len(fname[1])))

\* C9 as stated: the extension key is the part of the file name after its
\* final '.', absent exactly when the file name has no '.', for every file
\* name, those beginning with '.' included.
C9_AsStated == Called => extension = ExtensionAfterFinalDot(filename)

\* C9, amended: the keys are the file name (the last component of the path,
\* absent when the path has none or ends in "..") and the extension; the
\* extension is absent when the file name is absent, has no '.', or has its
\* only '.' as first character, and is otherwise the part after the final '.'.
C9_Keys ==
    Called =>
        /\ filename = None => extension = None
        /\ filename # None =>
            LET name == filename[1]
                dots == {i \in 1..Len(name) : name[i] = Dot}
            IN  /\ name # <<>>
                /\ name # <<Dot>>
                /\ name # <<Dot, Dot>>
                /\ \A i \in 1..Len(name) : name[i] # Sep
                /\ \E i \in 0..(Len(path[1]) - Len(name)) :
                        SubSeq(path[1], i + 1, i + Len(name)) = name
                /\ extension = None <=> dots \subseteq {1}
                /\ extension # None =>
                        \E d \in dots :
                            /\ d > 1
                            /\ \A i \in dots : i <= d
                            /\ name = SubSeq(name, 1, d) \o extension[1]
                            /\ Len(name) = d + Len(extension[1])

\* A file name that begins with its only '.' has no extension key.
C9_Witness ==
    /\ Called
    /\ filename # None
    /\ Len(filename[1]) > 1
    /\ filename[1][1] = Dot
    /\ \A i \in 2..Len(filename[1]) : filename[1][i] # Dot
    /\ extension = None

\* The mapping set_theme(theme) computes for language l.
MappingFor(l, theme) == ThemeMapNew(languages[l].captures, theme)

\* m has exactly the capture names of language l as keys, each once.
HasAllKeys(m, l) ==
    /\ {m[i].capture : i \in 1..Len(m)} = {languages[l].captures[i] : i \in 1..Len(languages[l].captures)}
    /\ Len(m) = Len(languages[l].captures)

\* Thread t has returned from theme_mapping() with a snapshot.
HasSnapshot(t) == threads[t].pc = "idle" /\ threads[t].op = "theme_mapping"

\* Thread t is part way through the store of a set_theme on language l.
Storing(t, l) == threads[t].pc = "st_store" /\ threads[t].lang = l /\ threads[t].k > 0

\* C3 as stated: from construction onward, no snapshot returned by
\* theme_mapping() has a missing or duplicate key relative to the capture
\* names of the language's query.
C3_AsStated == \A t \in Threads : HasSnapshot(t) => HasAllKeys(threads[t].snap, threads[t].lang)

\* C3, amended: every snapshot returned by theme_mapping(), whatever set_theme
\* calls run concurrently, is either the empty default mapping the language
\* was constructed with or a whole mapping: exactly the capture names as keys,
\* each once, all styled from one theme; never a partially rebuilt one.
C3_WholeSnapshots ==
    \A t \in Threads :
        HasSnapshot(t) =>
            \/ threads[t].snap = DefaultThemeMap
            \/ /\ HasAllKeys(threads[t].snap, threads[t].lang)
               /\ \E theme \in Themes :
                    \A i \in 1..Len(threads[t].snap) :
                        threads[t].snap[i].style = StyleOf(theme, threads[t].snap[i].capture)

\* A reader holds a whole snapshot of a language while a writer is part way
\* through a store on it and the value in the mutex is neither the old nor
\* the new mapping.
C3_Witness ==
    \E r, w \in Threads :
        /\ HasSnapshot(r)
        /\ threads[r].snap # DefaultThemeMap
        /\ Storing(w, threads[r].lang)
        /\ theme_mapping[threads[r].lang] # threads[w].new
        /\ theme_mapping[threads[r].lang] # threads[r].snap
        /\ threads[w].theme # threads[r].snap[1].style[1]

\* The value in the mutex after a whole set_theme(theme) store on language l
\* that starts from the value m.
RECURSIVE StoreFrom(_, _, _)
StoreFrom(m, new, k) ==
    IF k >= Len(new) THEN StoreEntries(m, new, k)
    ELSE StoreFrom(StoreEntries(m, new, k), new, k + 1)

AfterSetTheme(m, l, theme) == StoreFrom(m, MappingFor(l, theme), 1)

\* C4: set_theme is idempotent: whatever the mapping held before, a second
\* set_theme(T) leaves the mapping the first one left, and between stores the
\* mapping of a language is the one computed from the theme last installed,
\* however many times it was installed.
C4_Idempotent ==
    \A l \in 1..Len(languages) :
        /\ \A theme \in Themes :
            LET once == AfterSetTheme(theme_mapping[l], l, theme)
            IN  /\ AfterSetTheme(once, l, theme) = once
                /\ once = MappingFor(l, theme)
        /\ (installed[l] # NoTheme /\ \A t \in Threads : ~Storing(t, l)) =>
                theme_mapping[l] = MappingFor(l, installed[l])

\* Two set_theme calls with the same theme on the same language have
\* returned, the second over the mapping the first installed.
C4_Witness ==
    \E l \in 1..Len(languages) :
        /\ \A t \in Threads :
            /\ threads[t].pc = "idle"
            /\ threads[t].op = "set_theme"
            /\ threads[t].lang = l
            /\ threads[t].theme = installed[l]
        /\ Len(languages[l].captures) > 1
        /\ theme_mapping[l] = MappingFor(l, installed[l])

\* Thread r's theme_mapping() takes its snapshot in this step.
Clones(r) == threads[r].pc = "tm_clone" /\ threads'[r].pc = "idle"

\* C5 as stated: once set_theme(T) has returned, every later theme_mapping()
\* call on that language observes the mapping computed from T, whatever other
\* set_theme calls take place.
C5_AsStated ==
    [][\A r \in Threads :
        Clones(r) =>
            \A theme \in threads[r].seen :
                threads'[r].snap = MappingFor(threads[r].lang, theme)]_vars

\* C5, amended: once set_theme(T) has returned, every later theme_mapping()
\* call on that language observes the mapping most recently installed on it:
\* the one computed from T unless a later set_theme has replaced it, never
\* the default mapping and never a mapping whose store was not the last.
C5_LatestInstalled ==
    [][\A r \in Threads :
        Clones(r) =>
            LET l == threads[r].lang
            IN  /\ installed[l] # NoTheme => threads'[r].snap = MappingFor(l, installed[l])
                /\ installed[l] = NoTheme => threads'[r].snap = DefaultThemeMap
                /\ threads[r].seen # {} => installed[l] # NoTheme]_vars

\* A theme_mapping() that began after a set_theme on its language returned is
\* about to take its snapshot of a language with two capture names.
C5_Witness ==
    \E r \in Threads :
        /\ threads[r].pc = "tm_clone"
        /\ threads[r].seen # {}
        /\ Len(languages[threads[r].lang].captures) > 1
        /\ theme_mapping[threads[r].lang] = MappingFor(threads[r].lang, installed[threads[r].lang])

\* The languages whose mutex thread t holds.
Held(t) == {l \in 1..Len(languages) : lock[l] = t}

\* C7: under fair scheduling every started theme_mapping, Language.set_theme
\* and Registry.set_theme call returns; a thread holds at most one language
\* lock, none once its call has returned, and whenever a call is in progress
\* some call can take a step.
C7_Returns ==
    /\ \A t \in Threads : (threads[t].pc # "idle") ~> (threads[t].pc = "idle")
    /\ [](\A t \in Threads :
            /\ Cardinality(Held(t)) <= 1
            /\ threads[t].pc = "idle" => Held(t) = {}
            /\ threads[t].pc \in {"tm_lock", "st_lock"} => Held(t) = {})
    /\ []((\E t \in Threads : threads[t].pc # "idle") => \E t \in Threads : ENABLED Step(t))

\* A call waits for the mutex of a language that a registry-wide set_theme
\* holds part way through its store.
C7_Witness ==
    \E t, u \in Threads :
        /\ threads[t].pc \in {"tm_lock", "st_lock"}
        /\ lock[threads[t].lang] = u
        /\ threads[u].pc = "st_store"
        /\ threads[u].op = "registry_set_theme"

\* Thread t is in (or, idle, was last in) a registry-wide set_theme.
InRegistrySetTheme(t) == threads[t].op = "registry_set_theme"

\* Thread t's registry-wide set_theme returns in this step.
RegistryReturns(t) ==
    InRegistrySetTheme(t) /\ threads[t].pc = "st_unlock" /\ threads'[t].pc = "idle"

\* Thread t is inside some set_theme call.
Writing(t) ==
    threads[t].pc # "idle" /\ threads[t].op \in {"set_theme", "registry_set_theme"}

\* The visits of a registry-wide set_theme go through the languages in
\* registration order, one store each, none skipped.
InOrder(t) ==
    /\ (threads[t].pc = "idle" /\ threads'[t].pc # "idle" /\ threads'[t].op = "registry_set_theme")
            => threads'[t].lang = 1
    /\ (InRegistrySetTheme(t) /\ threads[t].pc # "idle" /\ threads'[t].pc # "idle")
            => \/ threads'[t].lang = threads[t].lang
               \/ /\ threads'[t].lang = threads[t].lang + 1
                  /\ threads[t].pc = "st_unlock"
    /\ (InRegistrySetTheme(t) /\ threads[t].pc = "st_lock" /\ threads'[t].pc = "st_store")
            => threads[t].new = MappingFor(threads[t].lang, threads[t].theme)
    /\ RegistryReturns(t) => threads[t].lang = Len(languages)

\* C8 as stated: Registry.set_theme(T) visits every language once, in
\* registration order, and when the call returns with no other writer active
\* every language's mapping is the one computed from T.
C8_AsStated ==
    [][\A t \in Threads :
        /\ InOrder(t)
        /\ (RegistryReturns(t) /\ \A u \in Threads : u # t => ~Writing(u)')
                => \A l \in 1..Len(languages) :
                        theme_mapping'[l] = MappingFor(l, threads[t].theme)]_vars

\* C8, amended: Registry.set_theme(T) visits every language once, in
\* registration order, none skipped; while no other thread has stored since
\* the call began, the languages before the one being visited hold the
\* mapping computed from T, and so does every language when the call returns.
C8_Forwards ==
    /\ [](\A t \in Threads :
            (InRegistrySetTheme(t) /\ threads[t].pc # "idle" /\ threads[t].alone) =>
                \A j \in 1..(threads[t].lang - 1) :
                    theme_mapping[j] = MappingFor(j, threads[t].theme))
    /\ [][\A t \in Threads :
            /\ InOrder(t)
            /\ (RegistryReturns(t) /\ threads[t].alone)
                    => \A l \in 1..Len(languages) :
                            theme_mapping'[l] = MappingFor(l, threads[t].theme)]_vars

\* A registry-wide set_theme over two languages, undisturbed, has replaced
\* the first language's mapping and is about to return from the second.
C8_Witness ==
    \E t \in Threads :
        /\ InRegistrySetTheme(t)
        /\ threads[t].pc = "st_unlock"
        /\ threads[t].alone
        /\ threads[t].lang = 2
        /\ \E u \in Threads : u # t /\ threads[u].pc = "tm_lock"
        /\ \A l \in 1..Len(languages) : theme_mapping[l] = MappingFor(l, threads[t].theme)

\* C10: only theme mappings change. No step changes the registry (members,
\* order, configs, queries); select_language changes nothing but its own
\* result and theme_mapping() changes no mapping; so the result of
\* select_language for every path is the same before and after every step,
\* and a result once returned stays the result for that path.
C10_Frame ==
    /\ [](Called => selected = select_language(languages, path[1]))
    /\ [][/\ languages' = languages
          /\ \A p \in FixturePaths :
                select_language(languages', p) = select_language(languages, p)
          /\ selvars' # selvars =>
                UNCHANGED <<languages, theme_mapping, lock, installed, threads>>
          /\ (\E t \in Threads : threads[t].op = "theme_mapping" /\ threads'[t] # threads[t])
                => theme_mapping' = theme_mapping
          /\ (\A t \in Threads : ~(threads[t].pc = "st_store" /\ threads'[t] # threads[t]))
                => theme_mapping' = theme_mapping]_vars

\* A select_language result returned before any set_theme is still the
\* result while one language has a new mapping and another is part way
\* through a store.
C10_Witness ==
    /\ Called
    /\ selected = Some(2)
    /\ installed[2] # NoTheme
    /\ theme_mapping[2] # DefaultThemeMap
    /\ \E t \in Threads : Storing(t, 1)
    /\ \E t \in Threads : HasSnapshot(t)

====
